---- MODULE Spec2Model ----
(***************************************************************************)
(* The conversational task-management agent of physical-ai-todo:           *)
(*   backend/app/crud.py          task store and conversation store        *)
(*   backend/app/mcp/schemas.py   tool parameter schemas                   *)
(*   backend/app/mcp/tools.py     the five tool handlers and the registry  *)
(*   backend/app/chat/agent.py    ChatAgent._execute_tool, ChatAgent.chat  *)
(*   backend/app/routes/chat.py   POST /chat                               *)
(*                                                                         *)
(* Strings are sequences of one-character strings.  An Optional value is   *)
(* a sequence of length at most one: None is << >> and a present value x   *)
(* is <<x>>.  Rows are created in id order, so "ORDER BY created_at DESC"  *)
(* is "ORDER BY id DESC".                                                  *)
(***************************************************************************)
EXTENDS Integers, Sequences, FiniteSets, TLC

VARIABLES
    tasks,          \* table task: a set of rows
    next_task_id,   \* the next primary key of table task
    notifications,  \* table notification: rows in insertion order
    conversation,   \* table conversation_messages: rows in insertion order
    fk_enforced,    \* whether the database enforces foreign keys (PostgreSQL: yes, the tests' SQLite: no)
    session_active, \* whether the request's Session still has a usable transaction
    clock,          \* time.time() * 1000, the source of new conversation ids
    pc,             \* where the running exchange (POST /chat) stands
    ex,             \* the locals of the running exchange
    response,       \* the last response sent to the caller
    exchanges,      \* exchanges started so far
    call,           \* the last tool invocation: arguments, result, stores before it
    ops,            \* direct tool invocations and store appends made so far
    loaded,         \* the last result of get_conversation_history, with its arguments
    inflight        \* the complete_task handlers running in concurrent requests: their locals

vars == <<tasks, next_task_id, notifications, conversation, fk_enforced, session_active, clock,
          pc, ex, response, exchanges, call, ops, loaded, inflight>>

-----------------------------------------------------------------------------
(* Optional values and strings *)

None == << >>
Some(x) == <<x>>
IsSome(o) == Len(o) = 1
Val(o) == o[1]

\* str.lower() on the alphabet of the model
Lower(c) == CASE c = "A" -> "a" [] c = "B" -> "b" [] c = "C" -> "c" [] OTHER -> c
LowerStr(s) == [i \in 1..Len(s) |-> Lower(s[i])]

\* Python: needle in hay
Contains(needle, hay) ==
    \E i \in 0..(Len(hay) - Len(needle)) : SubSeq(hay, i + 1, i + Len(needle)) = needle

\* SQL: column ILIKE '%search%' (the alphabet has no %, _ or \)
ILike(column, search) == Contains(LowerStr(search), LowerStr(column))

\* Python truthiness of a str
Truthy(s) == Len(s) > 0

StrLen(s) == Len(s)

Min(a, b) == IF a < b THEN a ELSE b

-----------------------------------------------------------------------------
(* crud.py: the task store *)

\* `active` is the state of the Session the rows are reached through: a commit
\* whose flush fails rolls the transaction back and leaves the Session unusable
\* until Session.rollback(), which no caller issues
Db(ts, nid, ns, active) ==
    [tasks |-> ts, next_task_id |-> nid, notifications |-> ns, active |-> active]

\* order_by(created_at desc): the ids present, largest first, and their rows
IdsDesc(S, max_id) ==
    SelectSeq([k \in 1..max_id |-> max_id + 1 - k], LAMBDA i : \E t \in S : t.id = i)

RowsOf(S, ids) == [k \in 1..Len(ids) |-> CHOOSE t \in S : t.id = ids[k]]

OrderByIdDesc(S, max_id) == RowsOf(S, IdsDesc(S, max_id))

\* query.limit(limit).offset(0) on an ordered result
Limit(ordered, limit) == SubSeq(ordered, 1, Min(limit, Len(ordered)))

\* where(or_(title ILIKE pattern, description ILIKE pattern)), if search
WhereSearch(q, search) ==
    IF IsSome(search) /\ Truthy(Val(search))
    THEN {t \in q : ILike(t.title, Val(search)) \/ ILike(t.description, Val(search))}
    ELSE q

\* where(Task.completed == completed), if completed is not None
WhereCompleted(q, completed) ==
    IF IsSome(completed) THEN {t \in q : t.completed = Val(completed)} ELSE q

\* where(Task.priority == priority), if priority
WherePriority(q, priority) ==
    IF IsSome(priority) THEN {t \in q : t.priority = Val(priority)} ELSE q

\* The total count, then order_by(created_at desc) and the page
CountAndPage(q, limit, max_id) ==
    [tasks |-> Limit(OrderByIdDesc(q, max_id), limit), total |-> Cardinality(q)]

\* list_tasks(session, user_id, limit, search, completed, priority): (tasks, total);
\* offset 0, sort created_at, order desc
list_tasks(db, user_id, limit, search, completed, priority) ==
    CountAndPage(
        WherePriority(
            WhereCompleted(
                WhereSearch({t \in db.tasks : t.user_id = user_id}, search),
                completed),
            priority),
        limit, db.next_task_id - 1)

\* get_task(task_id, session): the row or None
get_task(db, task_id) ==
    IF \E t \in db.tasks : t.id = task_id
    THEN Some(CHOOSE t \in db.tasks : t.id = task_id)
    ELSE None

\* NewTask with the row stored as already completed
NewTaskCompleted(db, user_id, title, description, priority) ==
    [id |-> db.next_task_id, user_id |-> user_id, title |-> title,
     description |-> description, priority |-> priority, completed |-> TRUE,
     due_date |-> None, last_overdue_notification_sent |-> None]

\* create_task(task_data, session, user_id): the new row, committed
NewTask(db, user_id, title, description, priority) ==
    [id |-> db.next_task_id, user_id |-> user_id, title |-> title,
     description |-> description, priority |-> priority, completed |-> FALSE,
     due_date |-> None, last_overdue_notification_sent |-> None]

InsertTask(db, row) ==
    [db |-> [db EXCEPT !.tasks = @ \cup {row}, !.next_task_id = @ + 1], task |-> row]

create_task(db, user_id, title, description, priority) ==
    InsertTask(db, NewTask(db, user_id, title, description, priority))

\* PatchedRow with the completion flag cleared whenever it is not supplied
PatchedRowReopening(old, update_data) ==
    [old EXCEPT
       !.title = IF IsSome(update_data.title) THEN Val(update_data.title) ELSE @,
       !.description = IF IsSome(update_data.description) THEN Val(update_data.description) ELSE @,
       !.priority = IF IsSome(update_data.priority) THEN Val(update_data.priority) ELSE @,
       !.completed = IF IsSome(update_data.completed) THEN Val(update_data.completed) ELSE FALSE,
       !.due_date = IF IsSome(update_data.due_date) THEN update_data.due_date ELSE @]

\* The loop of patch_task over update_data: a field is set when its value is not None
PatchedRow(old, update_data) ==
    [old EXCEPT
       !.title = IF IsSome(update_data.title) THEN Val(update_data.title) ELSE @,
       !.description = IF IsSome(update_data.description) THEN Val(update_data.description) ELSE @,
       !.priority = IF IsSome(update_data.priority) THEN Val(update_data.priority) ELSE @,
       !.completed = IF IsSome(update_data.completed) THEN Val(update_data.completed) ELSE @,
       !.due_date = IF IsSome(update_data.due_date) THEN update_data.due_date ELSE @]

\* Lines 225-243 of patch_task, run on the row the loop has already written to:
\* old_due_date is read from it, and the overdue tracking is reset when the row's
\* due_date differs from old_due_date. No task of the model has a reminder_offset,
\* so reminder_time stays None and last_reminder_sent is not touched.
OldDueDate(row) == row.due_date

Retracked(row, update_data) ==
    IF IsSome(update_data.due_date) /\ row.due_date # OldDueDate(row)
    THEN [row EXCEPT !.last_overdue_notification_sent = None]
    ELSE row

ReplaceTask(db, old, new) ==
    [db |-> [db EXCEPT !.tasks = (@ \ {old}) \cup {new}], task |-> Some(new)]

PatchFound(db, found, update_data) ==
    IF ~IsSome(found) THEN [db |-> db, task |-> None]
    ELSE ReplaceTask(db, Val(found),
                     Retracked(PatchedRow(Val(found), update_data), update_data))

\* update_task(task_id, task_data, session), the full replacement of PUT:
\* old_due_date is saved before the fields are written
Replaced(old, task_data) ==
    [old EXCEPT
       !.title = task_data.title, !.description = task_data.description,
       !.priority = task_data.priority, !.completed = task_data.completed,
       !.due_date = task_data.due_date,
       !.last_overdue_notification_sent = IF old.due_date # task_data.due_date THEN None ELSE @]

UpdateFound(db, found, task_data) ==
    IF ~IsSome(found) THEN [db |-> db, task |-> None]
    ELSE ReplaceTask(db, Val(found), Replaced(Val(found), task_data))

update_task(db, task_id, task_data) ==
    UpdateFound(db, get_task(db, task_id), task_data)

\* patch_task(task_id, task_data, session)
patch_task(db, task_id, update_data) ==
    PatchFound(db, get_task(db, task_id), update_data)

\* session.delete(db_task): Task.notifications cascades "all, delete-orphan", so the
\* row's notifications go with it
DeleteFound(db, found) ==
    IF ~IsSome(found) THEN [db |-> db, deleted |-> FALSE]
    ELSE [db |-> [db EXCEPT !.tasks = @ \ {Val(found)},
                            !.notifications =
                                SelectSeq(@, LAMBDA n : n.task_id # Val(found).id)],
          deleted |-> TRUE]

\* delete_task(task_id, session)
crud_delete_task(db, task_id) == DeleteFound(db, get_task(db, task_id))

-----------------------------------------------------------------------------
(* mcp/tools.py: result envelopes and notifications *)

\* A formatted text: the template and the values put into it
Msg(text, title, id, items) == [text |-> text, title |-> title, id |-> id, items |-> items]

Notification(user_id, task_id, type, text, title) ==
    [user_id |-> user_id, task_id |-> task_id, type |-> type,
     message |-> [text |-> text, title |-> title], is_read |-> FALSE]

Failure(err, msg) == [success |-> FALSE, error |-> err, message |-> msg]

\* Notify with the notification row never written
NotifyNothing(db, fk, n, success, failText) ==
    [db |-> db, result |-> success]

\* session.add(notification); session.commit() and the return that follows.  The
\* insert is refused when foreign keys are enforced and the row's task is gone; the
\* handler's except clause then returns a failure, the earlier commits standing.
Notify(db, fk, n, success, failText) ==
    IF fk /\ ~\E t \in db.tasks : t.id = n.task_id
    THEN [db |-> [db EXCEPT !.active = FALSE],
          result |-> Failure("IntegrityError", Msg(failText, << >>, 0, << >>))]
    ELSE [db |-> [db EXCEPT !.notifications = Append(@, n)], result |-> success]

\* A statement on a Session whose transaction was rolled back raises, and the
\* handler's except clause answers
Raised(failText) == Failure("PendingRollbackError", Msg(failText, << >>, 0, << >>))

\* "\n".join([f"- ID {t.id}: {t.title}" for t in matching_tasks])
Listing(matching) == [i \in 1..Len(matching) |-> <<matching[i].id, matching[i].title>>]

\* The two matching passes of the title resolver: exact title first, substring
\* only when no title is exact
ExactMatches(found, task_title) ==
    SelectSeq(found, LAMBDA t : LowerStr(t.title) = LowerStr(task_title))

PartialMatches(found, task_title) ==
    SelectSeq(found, LAMBDA t : Contains(LowerStr(task_title), LowerStr(t.title)))

MatchingTasks(found, task_title) ==
    IF ExactMatches(found, task_title) # << >>
    THEN ExactMatches(found, task_title)
    ELSE PartialMatches(found, task_title)

\* The limit the three resolvers pass to list_tasks
SearchLimit == 100

\* What the resolver hands on: an early return, or the task and the id to act on
Return(result) == [done |-> TRUE, result |-> result]
Resolved(task, id) == [done |-> FALSE, task |-> task, id |-> id]

\* CheckFound without "if task.user_id != params.user_id"
CheckFoundAnyOwner(params, task, id, deniedText) ==
    IF ~IsSome(task)
    THEN Return(Failure("Task not found", Msg("Task with ID not found", << >>, id, << >>)))
    ELSE Resolved(Val(task), id)

\* "if not task" and "if task.user_id != params.user_id"
CheckFound(params, task, id, deniedText) ==
    IF ~IsSome(task)
    THEN Return(Failure("Task not found", Msg("Task with ID not found", << >>, id, << >>)))
    ELSE IF Val(task).user_id # params.user_id
    THEN Return(Failure("Permission denied", Msg(deniedText, << >>, 0, << >>)))
    ELSE Resolved(Val(task), id)

\* CheckMatching without "if len(matching_tasks) > 1": the first match is taken
CheckMatchingTakesFirst(params, matching, notFoundText, multipleText, deniedText) ==
    IF matching = << >>
    THEN Return(Failure("Task not found", Msg(notFoundText, Val(params.task_title), 0, << >>)))
    ELSE CheckFound(params, Some(matching[1]), matching[1].id, deniedText)

\* The title branch once matching_tasks is known
CheckMatching(params, matching, notFoundText, multipleText, deniedText) ==
    IF matching = << >>
    THEN Return(Failure("Task not found", Msg(notFoundText, Val(params.task_title), 0, << >>)))
    ELSE IF Len(matching) > 1
    THEN Return(Failure("Multiple matches",
                        Msg(multipleText, Val(params.task_title), 0, Listing(matching))))
    ELSE CheckFound(params, Some(matching[1]), matching[1].id, deniedText)

\* The resolver of complete_task_tool, delete_task_tool and update_task_tool.
\* `scope` is the completed filter of the title search.
Resolve(params, db, scope, notFoundText, multipleText, missingText, deniedText, failText) ==
    IF IsSome(params.task_title) /\ Truthy(Val(params.task_title))
    THEN IF ~db.active THEN Return(Raised(failText))
         ELSE
         CheckMatching(params,
                       MatchingTasks(list_tasks(db, params.user_id, SearchLimit,
                                                params.task_title, scope, None).tasks,
                                     Val(params.task_title)),
                       notFoundText, multipleText, deniedText)
    ELSE IF IsSome(params.task_id) /\ Val(params.task_id) # 0
    THEN IF ~db.active THEN Return(Raised(failText))
         ELSE CheckFound(params, get_task(db, Val(params.task_id)), Val(params.task_id),
                         deniedText)
    ELSE Return(Failure("Missing parameter", Msg(missingText, << >>, 0, << >>)))

\* add_task(params, session)
AddCreated(params, fk, made) ==
    Notify(made.db, fk,
           Notification(params.user_id, made.task.id, "task_created", "Created task:",
                        made.task.title),
           [success |-> TRUE, task_id |-> made.task.id, title |-> made.task.title,
            description |-> made.task.description, priority |-> made.task.priority,
            message |-> Msg("Task created successfully with ID", made.task.title,
                            made.task.id, << >>)],
           "Failed to create task")

add_task(params, db, fk) ==
    IF ~db.active THEN [db |-> db, result |-> Raised("Failed to create task")]
    ELSE
    AddCreated(params, fk,
               create_task(db, params.user_id, params.title, params.description, params.priority))

\* CompletedFilter with the status never turned into a filter
CompletedFilterNone(status) == None

\* list_tasks_tool(params, session)
CompletedFilter(status) ==
    CASE status = "pending" -> Some(FALSE)
      [] status = "completed" -> Some(TRUE)
      [] OTHER -> None

TaskDicts(rows) ==
    [i \in 1..Len(rows) |->
        [id |-> rows[i].id, title |-> rows[i].title, description |-> rows[i].description,
         priority |-> rows[i].priority, completed |-> rows[i].completed]]

ListResult(params, got) ==
    [success |-> TRUE, tasks |-> TaskDicts(got.tasks), total |-> got.total,
     count |-> Len(got.tasks),
     message |-> Msg("Found task(s)", <<params.status>>, Len(got.tasks), << >>)]

list_tasks_tool(params, db, fk) ==
    IF ~db.active
    THEN [db |-> db,
          result |-> [success |-> FALSE, error |-> "PendingRollbackError", tasks |-> << >>,
                      message |-> Msg("Failed to list tasks", << >>, 0, << >>)]]
    ELSE
    [db |-> db,
     result |-> ListResult(params, list_tasks(db, params.user_id, params.limit, None,
                                              CompletedFilter(params.status), params.priority))]

\* complete_task_tool(params, session): the title search looks at pending tasks only
CompletePatched(params, fk, patched) ==
    Notify(patched.db, fk,
           Notification(params.user_id, Val(patched.task).id, "task_completed", "Completed:",
                        Val(patched.task).title),
           [success |-> TRUE, task_id |-> Val(patched.task).id, title |-> Val(patched.task).title,
            completed |-> Val(patched.task).completed,
            message |-> Msg("Task marked as complete!", Val(patched.task).title, 0, << >>)],
           "Failed to complete task")

\* CompleteResolved with the task looked at again before it is patched: a task
\* that is completed by now is not completed a second time
CompleteResolvedIfPending(params, db, fk, r) ==
    IF r.done THEN [db |-> db, result |-> r.result]
    ELSE IF \E t \in db.tasks : t.id = r.id /\ t.completed
    THEN [db |-> db,
          result |-> Failure("Task not found", Msg("Task with ID not found", << >>, r.id, << >>))]
    ELSE CompletePatched(params, fk,
                         patch_task(db, r.id, [title |-> None, description |-> None,
                                               priority |-> None, completed |-> Some(TRUE),
                                               due_date |-> None]))

CompleteResolved(params, db, fk, r) ==
    IF r.done THEN [db |-> db, result |-> r.result]
    ELSE CompletePatched(params, fk,
                         patch_task(db, r.id, [title |-> None, description |-> None,
                                               priority |-> None, completed |-> Some(TRUE),
                                               due_date |-> None]))

\* complete_task_tool with the title search not limited to pending tasks
CompleteAnyState(params, db, fk) ==
    CompleteResolved(params, db, fk,
                     Resolve(params, db, None, "No pending task found with title matching",
                             "Found multiple tasks matching",
                             "Please provide either task_id or task_title",
                             "You don't have permission to complete this task",
                             "Failed to complete task"))

\* Lines 164-221 of complete_task_tool: the task is looked up
CompleteLookup(params, db) ==
    Resolve(params, db, Some(FALSE), "No pending task found with title matching",
            "Found multiple tasks matching",
            "Please provide either task_id or task_title",
            "You don't have permission to complete this task",
            "Failed to complete task")

complete_task_tool(params, db, fk) ==
    CompleteResolved(params, db, fk, CompleteLookup(params, db))

\* delete_task_tool(params, session): the row is deleted and committed first, the
\* notification, with the title kept from before, is written after it
DeleteDone(params, fk, r, gone) ==
    IF ~gone.deleted
    THEN [db |-> gone.db,
          result |-> Failure("Deletion failed", Msg("Failed to delete task", << >>, 0, << >>))]
    ELSE Notify(gone.db, fk,
                Notification(params.user_id, r.id, "task_deleted", "Deleted:", r.task.title),
                [success |-> TRUE, task_id |-> r.id,
                 message |-> Msg("Task deleted successfully!", r.task.title, 0, << >>)],
                "Failed to delete task")

DeleteResolved(params, db, fk, r) ==
    IF r.done THEN [db |-> db, result |-> r.result]
    ELSE DeleteDone(params, fk, r, crud_delete_task(db, r.id))

delete_task_tool(params, db, fk) ==
    DeleteResolved(params, db, fk,
                   Resolve(params, db, None, "No task found with title matching",
                           "Found multiple tasks matching",
                           "Please provide either task_id or task_title",
                           "You don't have permission to delete this task",
                           "Failed to delete task"))

\* update_task_tool(params, session)
UpdatePatched(params, fk, patched) ==
    Notify(patched.db, fk,
           Notification(params.user_id, Val(patched.task).id, "task_updated", "Updated:",
                        Val(patched.task).title),
           [success |-> TRUE, task_id |-> Val(patched.task).id, title |-> Val(patched.task).title,
            description |-> Val(patched.task).description,
            priority |-> Val(patched.task).priority,
            message |-> Msg("Task updated successfully", Val(patched.task).title, 0, << >>)],
           "Failed to update task")

UpdateResolved(params, db, fk, r) ==
    IF r.done THEN [db |-> db, result |-> r.result]
    ELSE IF ~IsSome(params.title) /\ ~IsSome(params.description) /\ ~IsSome(params.priority)
    THEN [db |-> db,
          result |-> Failure("No updates provided", Msg("No fields to update", << >>, 0, << >>))]
    ELSE UpdatePatched(params, fk,
                       patch_task(db, r.id, [title |-> params.title,
                                             description |-> params.description,
                                             priority |-> params.priority, completed |-> None,
                                             due_date |-> None]))

update_task_tool(params, db, fk) ==
    UpdateResolved(params, db, fk,
                   Resolve(params, db, None, "No task found with title matching",
                           "Found multiple tasks matching",
                           "Please provide either task_id or task_title to identify the task",
                           "You don't have permission to update this task",
                           "Failed to update task"))

-----
(* mcp/schemas.py: the parameter schemas.  Each gives Some(params) with the     *)
(* defaults filled in, or None where pydantic raises ValidationError.           *)

Priorities == {"low", "medium", "high"}
Statuses == {"all", "pending", "completed"}

TitleMaxLength == 500
DescriptionMaxLength == 5000
ListLimitMax == 100
ListLimitDefault == 50

Default(o, d) == IF IsSome(o) THEN Val(o) ELSE d

TitleOk(s) == StrLen(s) <= TitleMaxLength
DescriptionOk(s) == StrLen(s) <= DescriptionMaxLength
PriorityOk(p) == p \in Priorities
TaskIdOk(i) == i > 0

\* An Optional field: None passes, a present value is validated
OptTitleOk(o) == ~IsSome(o) \/ TitleOk(Val(o))
OptDescriptionOk(o) == ~IsSome(o) \/ DescriptionOk(Val(o))
OptPriorityOk(o) == ~IsSome(o) \/ PriorityOk(Val(o))
OptTaskIdOk(o) == ~IsSome(o) \/ TaskIdOk(Val(o))

AddTaskSchema(a) ==
    IF /\ IsSome(a.user_id)
       /\ IsSome(a.title) /\ StrLen(Val(a.title)) >= 1 /\ TitleOk(Val(a.title))
       /\ OptDescriptionOk(a.description)
       /\ OptPriorityOk(a.priority)
    THEN Some([user_id |-> Val(a.user_id), title |-> Val(a.title),
               description |-> Default(a.description, << >>),
               priority |-> Default(a.priority, "medium")])
    ELSE None

ListTasksSchema(a) ==
    IF /\ IsSome(a.user_id)
       /\ ~IsSome(a.status) \/ Val(a.status) \in Statuses
       /\ OptPriorityOk(a.priority)
       /\ ~IsSome(a.limit) \/ (Val(a.limit) >= 1 /\ Val(a.limit) <= ListLimitMax)
    THEN Some([user_id |-> Val(a.user_id), status |-> Default(a.status, "all"),
               priority |-> a.priority, limit |-> Default(a.limit, ListLimitDefault)])
    ELSE None

\* CompleteTaskSchema and DeleteTaskSchema have the same fields
CompleteTaskSchema(a) ==
    IF IsSome(a.user_id) /\ OptTaskIdOk(a.task_id)
    THEN Some([user_id |-> Val(a.user_id), task_id |-> a.task_id, task_title |-> a.task_title])
    ELSE None

DeleteTaskSchema(a) ==
    IF IsSome(a.user_id) /\ OptTaskIdOk(a.task_id)
    THEN Some([user_id |-> Val(a.user_id), task_id |-> a.task_id, task_title |-> a.task_title])
    ELSE None

UpdateTaskSchema(a) ==
    IF /\ IsSome(a.user_id) /\ OptTaskIdOk(a.task_id)
       /\ OptTitleOk(a.title)
       /\ OptDescriptionOk(a.description)
       /\ OptPriorityOk(a.priority)
    THEN Some([user_id |-> Val(a.user_id), task_id |-> a.task_id, task_title |-> a.task_title,
               title |-> a.title, description |-> a.description, priority |-> a.priority])
    ELSE None

-----------------------------------------------------------------------------
(* chat/agent.py: the Tool Executor *)

\* The registry of mcp/tools.py
TOOLS == {"add_task", "list_tasks", "complete_task", "delete_task", "update_task"}

Validate(tool_name, a) ==
    CASE tool_name = "add_task" -> AddTaskSchema(a)
      [] tool_name = "list_tasks" -> ListTasksSchema(a)
      [] tool_name = "complete_task" -> CompleteTaskSchema(a)
      [] tool_name = "delete_task" -> DeleteTaskSchema(a)
      [] tool_name = "update_task" -> UpdateTaskSchema(a)

Handler(tool_name, params, db, fk) ==
    CASE tool_name = "add_task" -> add_task(params, db, fk)
      [] tool_name = "list_tasks" -> list_tasks_tool(params, db, fk)
      [] tool_name = "complete_task" -> complete_task_tool(params, db, fk)
      [] tool_name = "delete_task" -> delete_task_tool(params, db, fk)
      [] tool_name = "update_task" -> update_task_tool(params, db, fk)

\* ChatAgent._execute_tool(tool_name, tool_arguments, session): the store after
\* the call and the result envelope
ExecuteValidated(tool_name, params, db, fk) ==
    IF ~IsSome(params)
    THEN [db |-> db,
          result |-> Failure("ValidationError",
                             Msg("Failed to execute " \o tool_name, << >>, 0, << >>))]
    ELSE Handler(tool_name, Val(params), db, fk)

execute_tool(tool_name, tool_arguments, db, fk) ==
    IF tool_name \notin TOOLS
    THEN [db |-> db, result |-> [success |-> FALSE, error |-> "Unknown tool: " \o tool_name]]
    ELSE ExecuteValidated(tool_name, Validate(tool_name, tool_arguments), db, fk)

-----------------------------------------------------------------------------
(* crud.py and chat/conversation.py: the conversation store *)

\* create_conversation_message writing the new row in front of the stored ones
PrependTurn(rows, conversation_id, user_id, role, content, tool_calls) ==
    <<[id |-> Len(rows) + 1, conversation_id |-> conversation_id,
       user_id |-> user_id, role |-> role, content |-> content,
       tool_calls |-> tool_calls]>> \o rows

\* create_conversation_message(db, conversation_id, user_id, role, content, tool_calls)
create_conversation_message(rows, conversation_id, user_id, role, content, tool_calls) ==
    Append(rows, [id |-> Len(rows) + 1, conversation_id |-> conversation_id,
                  user_id |-> user_id, role |-> role, content |-> content,
                  tool_calls |-> tool_calls])

Reversed(s) == [i \in 1..Len(s) |-> s[Len(s) + 1 - i]]

\* get_conversation_history without the descending order: the limit keeps the
\* oldest rows
OldestWindow(rows, conversation_id, limit) ==
    Limit(SelectSeq(rows, LAMBDA r : r.conversation_id = conversation_id), limit)

\* get_conversation_history(db, conversation_id, limit): newest first up to limit,
\* then reversed
get_conversation_history(rows, conversation_id, limit) ==
    Reversed(Limit(Reversed(SelectSeq(rows, LAMBDA r : r.conversation_id = conversation_id)),
                   limit))

\* load_conversation_context(db, conversation_id, limit): role and content of each
\* message, and its tool calls when it has some
ContextOf(messages) ==
    [i \in 1..Len(messages) |->
        [role |-> messages[i].role, content |-> messages[i].content,
         tool_calls |-> messages[i].tool_calls]]

load_conversation_context(rows, conversation_id, limit) ==
    ContextOf(get_conversation_history(rows, conversation_id, limit))

\* generate_conversation_id(): int(time.time() * 1000)
generate_conversation_id(now) == now

-----------------------------------------------------------------------------
(* chat/agent.py: ChatAgent.chat, and routes/chat.py: POST /chat *)

\* max_iterations, as POST /chat passes it
MAX_ITERATIONS == 5
\* the sliding window POST /chat asks for
HISTORY_LIMIT == 20

SYSTEM_PROMPT == <<"SYSTEM_PROMPT">>
APOLOGY == <<"I apologize, but I'm having trouble completing that request. Please try breaking it down into smaller steps.">>
ErrorText(e) == <<"I encountered an error: ", e, ". Please try again.">>

\* _build_messages(conversation_history, user_message)
build_messages(conversation_history, user_message) ==
    <<[role |-> "system", content |-> SYSTEM_PROMPT]>>
    \o [i \in 1..Len(conversation_history) |->
          [role |-> conversation_history[i].role, content |-> conversation_history[i].content]]
    \o <<[role |-> "user", content |-> user_message]>>

\* len(request.message.strip()) == 0
IsBlank(message) == \A i \in 1..Len(message) : message[i] = " "

\* tool_calls_log if tool_calls_log else None
LogOrNone(log) == IF log = << >> THEN None ELSE Some(log)

\* InjectUserId with the authenticated user's id always written over the payload's
InjectUserIdAlways(payload, user_id) ==
    IF payload.kind # "object" THEN None
    ELSE Some([payload.object EXCEPT !.user_id = Some(user_id)])

\* json.loads(tool_call.function.arguments) followed by the user_id injection:
\* Some(arguments), or None where the loop body raises (a payload that is not
\* JSON, or JSON that is no object)
InjectUserId(payload, user_id) ==
    IF payload.kind # "object" THEN None
    ELSE IF ~IsSome(payload.object.user_id)
         THEN Some([payload.object EXCEPT !.user_id = Some(user_id)])
         ELSE Some(payload.object)

NoExchange == [user_id |-> 0]
NoCall == [tool |-> "none"]
NoResponse == [status |-> 0]
NoLoad == [conversation_id |-> 0]
Handlers == {1, 2}
NoHandlers == [h \in Handlers |-> [pc |-> "idle"]]

\* The return value of ChatAgent.chat
AgentResponse(assistant_message, log, iterations, error) ==
    [assistant_message |-> assistant_message, tool_calls |-> LogOrNone(log),
     iterations |-> iterations, error |-> error]

-----------------------------------------------------------------------------
(* The values the model draws its inputs from *)

Users == {1, 2}

S_ab == <<"a", "b">>
S_AB == <<"A", "B">>
S_abc == <<"a", "b", "c">>
S_c == <<"c">>
S_x == <<"x">>
S_empty == << >>

Task(id, user_id, title, description, priority, completed) ==
    [id |-> id, user_id |-> user_id, title |-> title, description |-> description,
     priority |-> priority, completed |-> completed,
     due_date |-> None, last_overdue_notification_sent |-> None]

\* A tool's argument mapping as the language model emits it: every key optional
Args(user_id, task_id, task_title, title, description, priority, status, limit) ==
    [user_id |-> user_id, task_id |-> task_id, task_title |-> task_title, title |-> title,
     description |-> description, priority |-> priority, status |-> status, limit |-> limit]

ByTitle(t) == Args(None, None, Some(t), None, None, None, None, None)
ById(i) == Args(None, Some(i), None, None, None, None, None, None)

\* A tool call of a model reply: its id, the tool's name and the argument payload
ToolCall(id, name, object) ==
    [id |-> id, name |-> name, arguments |-> [kind |-> "object", object |-> object]]
Malformed(id, name) ==
    [id |-> id, name |-> name, arguments |-> [kind |-> "malformed", object |-> ByTitle(S_x)]]

\* The store the exchanges start from: user 1 owns "ab" and "abc", user 2 owns "AB"
StartTasks ==
    {Task(1, 1, S_ab, S_empty, "medium", FALSE),
     Task(2, 1, S_abc, S_empty, "low", FALSE),
     Task(3, 2, S_AB, S_empty, "medium", FALSE)}
StartNotifications == <<Notification(2, 3, "task_created", "Created task:", S_AB)>>

\* The conversation table the exchanges start from: empty, or conversation 1 of
\* user 1 holding one earlier exchange
StartConversations ==
    {<< >>,
     create_conversation_message(
        create_conversation_message(<< >>, 1, 1, "user", <<"h", "i">>, None),
        1, 1, "assistant", <<"o", "k">>, None)}

StartClock == 5

\* The replies the language model gives within one exchange come from one repertoire
Repertoires ==
    {{<<ToolCall(1, "add_task", Args(None, None, None, Some(S_c), None, None, None, None))>>,
      <<ToolCall(1, "delete_task", Args(Some(2), Some(3), None, None, None, None, None, None))>>,
      <<ToolCall(1, "complete_task", ByTitle(S_ab))>>},
     {<<ToolCall(1, "frobnicate", ById(1))>>,
      <<ToolCall(1, "add_task", Args(None, None, None, None, None, Some("high"), None, None)),
        ToolCall(2, "delete_task", ById(1))>>,
      <<ToolCall(1, "list_tasks", Args(None, None, None, None, None, None, Some("pending"), None))>>},
     {<<Malformed(1, "add_task"), ToolCall(2, "delete_task", ById(2))>>,
      <<ToolCall(1, "add_task", Args(None, None, None, Some(S_x), None, None, None, None)),
        ToolCall(2, "update_task", Args(None, None, Some(S_x), None, None, Some("high"), None, None))>>,
      <<ToolCall(1, "update_task", Args(None, Some(3), None, Some(S_c), None, None, None, None))>>}}

Messages == {<<"h", "i">>, <<" ">>}
Answers == {Some(<<"o", "k">>), None}

MaxExchanges == 1
MaxClock == 6

-----------------------------------------------------------------------------
(* POST /chat: the exchange *)

Store == Db(tasks, next_task_id, notifications, session_active)

ConversationIds == {conversation[i].conversation_id : i \in 1..Len(conversation)}

\* Lines 99-101 of routes/chat.py: the id the request supplies, or else a generated one
ChosenId(conversation_id) ==
    IF IsSome(conversation_id) THEN Val(conversation_id) ELSE generate_conversation_id(clock)

\* Lines 90-118 of routes/chat.py and the first lines of ChatAgent.chat: the request
\* is checked, the conversation id chosen, the history loaded, the user turn saved
Start(user_id, conversation_id, message, repertoire, history) ==
    [user_id |-> user_id, requested |-> conversation_id,
     conversation_id |-> ChosenId(conversation_id), message |-> message,
     history |-> history, messages |-> build_messages(history, message),
     tool_calls_log |-> << >>, iterations |-> 0, pending |-> << >>,
     agent |-> None, repertoire |-> repertoire, base |-> conversation, model_calls |-> 0]

\* Accept with step 2 of the route left out: the user turn is not saved
AcceptUnsaved(user_id, message, repertoire, conversation_id) ==
    /\ UNCHANGED conversation
    /\ ex' = Start(user_id, conversation_id, message, repertoire,
                   load_conversation_context(conversation, ChosenId(conversation_id),
                                             HISTORY_LIMIT))
    /\ pc' = "model"
    /\ response' = NoResponse

Accept(user_id, message, repertoire, conversation_id) ==
    /\ conversation' = create_conversation_message(conversation, ChosenId(conversation_id),
                                                   user_id, "user", message, None)
    /\ ex' = Start(user_id, conversation_id, message, repertoire,
                   load_conversation_context(conversation, ChosenId(conversation_id),
                                             HISTORY_LIMIT))
    /\ pc' = "model"
    /\ response' = NoResponse

\* One request to POST /chat
Request(user_id, conversation_id, message, repertoire) ==
    /\ pc \in {"idle", "done"}
    /\ exchanges' = exchanges + 1
    /\ IF IsBlank(message)
       THEN /\ response' = [status |-> 400, detail |-> "Message cannot be empty"]
            /\ pc' = "done"
            /\ ex' = NoExchange
            /\ UNCHANGED conversation
       ELSE Accept(user_id, message, repertoire, conversation_id)
    /\ call' = NoCall
    /\ session_active' = TRUE
    /\ UNCHANGED <<tasks, next_task_id, notifications, fk_enforced, clock, ops, loaded, inflight>>

Begin(user_id, conversation_id, message, repertoire) ==
    /\ exchanges < MaxExchanges
    /\ Request(user_id, conversation_id, message, repertoire)

\* ModelFails with the except clause returning no tool-call log
ModelFailsLosingLog ==
    /\ pc = "model"
    /\ ex.iterations < MAX_ITERATIONS
    /\ ex' = [ex EXCEPT !.iterations = @ + 1, !.model_calls = @ + 1,
                        !.agent = Some(AgentResponse(ErrorText("timeout"), << >>,
                                                     ex.iterations + 1, Some("timeout")))]
    /\ pc' = "returned"
    /\ UNCHANGED <<tasks, next_task_id, notifications, conversation, fk_enforced,
                   session_active, clock, response, exchanges, call, ops, loaded, inflight>>

\* The call of the language model raises: the except clause of the loop returns
ModelFails ==
    /\ pc = "model"
    /\ ex.iterations < MAX_ITERATIONS
    /\ ex' = [ex EXCEPT !.iterations = @ + 1, !.model_calls = @ + 1,
                        !.agent = Some(AgentResponse(ErrorText("timeout"), ex.tool_calls_log,
                                                     ex.iterations + 1, Some("timeout")))]
    /\ pc' = "returned"
    /\ UNCHANGED <<tasks, next_task_id, notifications, conversation, fk_enforced,
                   session_active, clock, response, exchanges, call, ops, loaded, inflight>>

\* The language model answers without tool calls: content or ""
ModelAnswers(content) ==
    /\ pc = "model"
    /\ ex.iterations < MAX_ITERATIONS
    /\ ex' = [ex EXCEPT !.iterations = @ + 1, !.model_calls = @ + 1,
                        !.agent = Some(AgentResponse(Default(content, << >>), ex.tool_calls_log,
                                                     ex.iterations + 1, None))]
    /\ pc' = "returned"
    /\ UNCHANGED <<tasks, next_task_id, notifications, conversation, fk_enforced,
                   session_active, clock, response, exchanges, call, ops, loaded, inflight>>

\* ModelRequestsTools under "while iterations <= max_iterations"
ModelRequestsToolsOnceMore(batch) ==
    /\ pc = "model"
    /\ ex.iterations <= MAX_ITERATIONS
    /\ ex' = [ex EXCEPT !.iterations = @ + 1, !.model_calls = @ + 1,
                        !.pending = batch,
                        !.messages = Append(@, [role |-> "assistant", content |-> << >>,
                                                tool_calls |-> batch])]
    /\ pc' = "tools"
    /\ UNCHANGED <<tasks, next_task_id, notifications, conversation, fk_enforced,
                   session_active, clock, response, exchanges, call, ops, loaded, inflight>>

\* ModelRequestsTools with the requested calls queued last first
ModelRequestsToolsReversed(batch) ==
    /\ pc = "model"
    /\ ex.iterations < MAX_ITERATIONS
    /\ ex' = [ex EXCEPT !.iterations = @ + 1, !.model_calls = @ + 1,
                        !.pending = Reversed(batch),
                        !.messages = Append(@, [role |-> "assistant", content |-> << >>,
                                                tool_calls |-> batch])]
    /\ pc' = "tools"
    /\ UNCHANGED <<tasks, next_task_id, notifications, conversation, fk_enforced,
                   session_active, clock, response, exchanges, call, ops, loaded, inflight>>

\* The language model asks for tool calls: its message joins the in-flight sequence
ModelRequestsTools(batch) ==
    /\ pc = "model"
    /\ ex.iterations < MAX_ITERATIONS
    /\ ex' = [ex EXCEPT !.iterations = @ + 1, !.model_calls = @ + 1,
                        !.pending = batch,
                        !.messages = Append(@, [role |-> "assistant", content |-> << >>,
                                                tool_calls |-> batch])]
    /\ pc' = "tools"
    /\ UNCHANGED <<tasks, next_task_id, notifications, conversation, fk_enforced,
                   session_active, clock, response, exchanges, call, ops, loaded, inflight>>

\* One pass of "for tool_call in response_message.tool_calls"
LoopBodyRaises(e) ==
    /\ ex' = [ex EXCEPT !.pending = << >>,
                        !.agent = Some(AgentResponse(ErrorText(e), ex.tool_calls_log,
                                                     ex.iterations, Some(e)))]
    /\ pc' = "returned"
    /\ UNCHANGED <<tasks, next_task_id, notifications, session_active, call>>

Executed(tool_call, tool_arguments, done) ==
    /\ tasks' = done.db.tasks
    /\ next_task_id' = done.db.next_task_id
    /\ notifications' = done.db.notifications
    /\ session_active' = done.db.active
    /\ call' = [tool |-> tool_call.name, arguments |-> tool_arguments,
                result |-> done.result, before |-> Store, by |-> ex.user_id]
    /\ ex' = [ex EXCEPT
                !.tool_calls_log = Append(@, [tool |-> tool_call.name,
                                              arguments |-> tool_arguments,
                                              result |-> done.result]),
                !.messages = Append(@, [role |-> "tool", tool_call_id |-> tool_call.id,
                                        name |-> tool_call.name, content |-> done.result]),
                !.pending = Tail(@)]
    /\ pc' = IF Tail(ex.pending) = << >> THEN "model" ELSE "tools"

Injected(tool_call, tool_arguments) ==
    IF ~IsSome(tool_arguments)
    THEN LoopBodyRaises("JSONDecodeError")
    ELSE Executed(tool_call, Val(tool_arguments),
                  execute_tool(tool_call.name, Val(tool_arguments), Store, fk_enforced))

ExecuteToolCall ==
    /\ pc = "tools"
    /\ Injected(Head(ex.pending), InjectUserId(Head(ex.pending).arguments, ex.user_id))
    /\ UNCHANGED <<conversation, fk_enforced, clock, response, exchanges, ops, loaded, inflight>>

\* "while iterations < max_iterations" ends: the apology
MaxIterationsReached ==
    /\ pc = "model"
    /\ ex.iterations >= MAX_ITERATIONS
    /\ ex' = [ex EXCEPT !.agent = Some(AgentResponse(APOLOGY, ex.tool_calls_log, ex.iterations,
                                                     Some("Max iterations reached")))]
    /\ pc' = "returned"
    /\ UNCHANGED <<tasks, next_task_id, notifications, conversation, fk_enforced,
                   session_active, clock, response, exchanges, call, ops, loaded, inflight>>

\* Lines 129-156 of routes/chat.py: the assistant turn is saved and the response
\* sent; when the save raises, the handler's except clause answers HTTP 500
Saved(agent_response) ==
    /\ conversation' = create_conversation_message(
                           conversation, ex.conversation_id, ex.user_id, "assistant",
                           agent_response.assistant_message, agent_response.tool_calls)
    /\ response' = [status |-> 200, conversation_id |-> ex.conversation_id,
                    user_message |-> ex.message,
                    assistant_message |-> agent_response.assistant_message,
                    tool_calls |-> agent_response.tool_calls]

PersistAssistant ==
    /\ pc = "returned"
    /\ IF session_active
       THEN Saved(Val(ex.agent))
       ELSE /\ response' = [status |-> 500, detail |-> "Internal server error"]
            /\ UNCHANGED conversation
    /\ pc' = "done"
    /\ UNCHANGED <<tasks, next_task_id, notifications, fk_enforced, session_active, clock, ex,
                   exchanges, call, ops, loaded, inflight>>

\* Time passes between exchanges
Elapse ==
    /\ pc \in {"idle", "done"}
    /\ clock < MaxClock
    /\ clock' = clock + 1
    /\ UNCHANGED <<tasks, next_task_id, notifications, conversation, fk_enforced,
                   session_active, pc, ex, response, exchanges, call, ops, loaded, inflight>>

Tick ==
    /\ exchanges < MaxExchanges
    /\ Elapse

Init ==
    /\ tasks = StartTasks
    /\ next_task_id = 4
    /\ notifications = StartNotifications
    /\ conversation \in StartConversations
    /\ fk_enforced \in BOOLEAN
    /\ session_active = TRUE
    /\ clock = StartClock
    /\ pc = "idle"
    /\ ex = NoExchange
    /\ response = NoResponse
    /\ exchanges = 0
    /\ call = NoCall
    /\ ops = 0
    /\ loaded = NoLoad
    /\ inflight = NoHandlers

Next ==
    \/ \E user_id \in Users, message \in Messages, repertoire \in Repertoires,
          conversation_id \in {None} \cup {Some(c) : c \in ConversationIds} :
            Begin(user_id, conversation_id, message, repertoire)
    \/ ModelFails
    \/ \E content \in Answers : ModelAnswers(content)
    \/ pc = "model" /\ \E batch \in ex.repertoire : ModelRequestsTools(batch)
    \/ ExecuteToolCall
    \/ MaxIterationsReached
    \/ PersistAssistant
    \/ Tick

Spec == Init /\ [][Next]_vars

\* Requests that follow one another without tool rounds: the model answers or fails at
\* once, and the clock may or may not have advanced when the next request arrives
MaxRequests == 2

BeginFresh(user_id, conversation_id) ==
    /\ exchanges < MaxRequests
    /\ Request(user_id, conversation_id, <<"h", "i">>, {})

TickFresh ==
    /\ exchanges < MaxRequests
    /\ Elapse

NextFresh ==
    \/ \E user_id \in Users, conversation_id \in {None} \cup {Some(c) : c \in ConversationIds} :
            BeginFresh(user_id, conversation_id)
    \/ ModelFails
    \/ \E content \in Answers : ModelAnswers(content)
    \/ PersistAssistant
    \/ TickFresh

SpecFresh == Init /\ [][NextFresh]_vars

-----------------------------------------------------------------------------
(* The Tool Executor called directly, with any arguments, on small stores and   *)
(* on a store holding more matching tasks than one search returns               *)

MaxOps == 2

Invoke(tool_name, tool_arguments, done) ==
    /\ tasks' = done.db.tasks
    /\ next_task_id' = done.db.next_task_id
    /\ notifications' = done.db.notifications
    /\ call' = [tool |-> tool_name, arguments |-> tool_arguments, result |-> done.result,
                before |-> Store, by |-> 0]
    /\ ops' = ops + 1
    /\ UNCHANGED <<conversation, fk_enforced, session_active, clock, pc, ex, response,
                   exchanges, loaded, inflight>>

InvokeTool(tool_name, tool_arguments) ==
    Invoke(tool_name, tool_arguments, execute_tool(tool_name, tool_arguments, Store, fk_enforced))

InvokeAdd(user_id, title, priority) ==
    /\ ops < MaxOps
    /\ InvokeTool("add_task", Args(user_id, None, None, title, None, priority, None, None))

InvokeList(user_id, status, priority, limit) ==
    /\ ops < MaxOps
    /\ InvokeTool("list_tasks", Args(user_id, None, None, None, None, priority, status, limit))

InvokeComplete(user_id, task_id, task_title) ==
    /\ ops < MaxOps
    /\ InvokeTool("complete_task", Args(user_id, task_id, task_title, None, None, None, None, None))

InvokeDelete(user_id, task_id, task_title) ==
    /\ ops < MaxOps
    /\ InvokeTool("delete_task", Args(user_id, task_id, task_title, None, None, None, None, None))

InvokeUpdate(user_id, task_id, task_title, title, description, priority) ==
    /\ ops < MaxOps
    /\ InvokeTool("update_task",
                  Args(user_id, task_id, task_title, title, description, priority, None, None))

Opt(S) == {None} \cup {Some(x) : x \in S}

\* User 1 owns "ab", "abc" and the completed "c" (described as "ab"); user 2 owns "AB"
ToolTasks == StartTasks \cup {Task(4, 1, S_c, S_ab, "high", TRUE)}

InitTools ==
    /\ tasks = ToolTasks
    /\ next_task_id = 5
    /\ notifications = StartNotifications
    /\ conversation = << >>
    /\ fk_enforced \in BOOLEAN
    /\ session_active = TRUE
    /\ clock = StartClock
    /\ pc = "idle"
    /\ ex = NoExchange
    /\ response = NoResponse
    /\ exchanges = 0
    /\ call = NoCall
    /\ ops = 0
    /\ loaded = NoLoad
    /\ inflight = NoHandlers

QueryTitles == {S_ab, S_c, <<"b">>, S_empty}
QueryIds == {1, 3, 9}

NextTools ==
    \/ \E user_id \in Users, title \in {S_ab, S_c, S_empty}, priority \in Opt({"urgent"}) :
          InvokeAdd(Some(user_id), Some(title), priority)
    \/ \E user_id \in Users, status \in Opt({"pending", "completed"}),
          priority \in Opt({"high"}), limit \in Opt({1}) :
          InvokeList(Some(user_id), status, priority, limit)
    \/ \E user_id \in Users, task_id \in Opt(QueryIds), task_title \in Opt(QueryTitles) :
          InvokeComplete(Some(user_id), task_id, task_title)
    \/ \E user_id \in Users, task_id \in Opt(QueryIds), task_title \in Opt(QueryTitles) :
          InvokeDelete(Some(user_id), task_id, task_title)
    \/ \E user_id \in Users, task_id \in Opt({1, 3}), task_title \in Opt(QueryTitles),
          title \in Opt({S_AB, S_empty}), description \in Opt({S_x}),
          priority \in Opt({"high"}) :
          InvokeUpdate(Some(user_id), task_id, task_title, title, description, priority)

SpecTools == InitTools /\ [][NextTools]_vars

\* User 1 owns "ab", the oldest task, and `fillers` newer tasks "abc"; user 2 owns "c"
BulkTasks(fillers) ==
    {Task(1, 1, S_ab, S_empty, "medium", FALSE)}
    \cup {Task(i, 1, S_abc, S_empty, "medium", FALSE) : i \in 2..(fillers + 1)}
    \cup {Task(fillers + 2, 2, S_c, S_empty, "medium", FALSE)}

InitBulk ==
    /\ \E fillers \in {SearchLimit - 1, SearchLimit} :
          /\ tasks = BulkTasks(fillers)
          /\ next_task_id = fillers + 3
    /\ notifications = << >>
    /\ conversation = << >>
    /\ fk_enforced \in BOOLEAN
    /\ session_active = TRUE
    /\ clock = StartClock
    /\ pc = "idle"
    /\ ex = NoExchange
    /\ response = NoResponse
    /\ exchanges = 0
    /\ call = NoCall
    /\ ops = 0
    /\ loaded = NoLoad
    /\ inflight = NoHandlers

NextBulk ==
    \/ \E user_id \in Users, title \in {S_ab, S_c} : InvokeAdd(Some(user_id), Some(title), None)
    \/ \E user_id \in Users, limit \in Opt({1}) : InvokeList(Some(user_id), None, None, limit)
    \/ \E user_id \in Users, task_title \in {S_ab, S_c} :
          InvokeComplete(Some(user_id), None, Some(task_title))
    \/ \E user_id \in Users, task_title \in {S_ab, S_c} :
          InvokeDelete(Some(user_id), None, Some(task_title))
    \/ \E user_id \in Users, task_title \in {S_ab, S_c} :
          InvokeUpdate(Some(user_id), None, Some(task_title), None, None, Some("high"))

SpecBulk == InitBulk /\ [][NextBulk]_vars

-----------------------------------------------------------------------------
(* Two requests run complete_task_tool at the same time. Each request has a
   Session of its own; a handler reads the store when it looks the task up
   (list_tasks or get_task) and again when patch_task fetches the row, and nothing
   holds the row between the two. *)

Looked(h, params) ==
    /\ inflight' = [inflight EXCEPT ![h] = [pc |-> "resolved", params |-> params,
                                            r |-> CompleteLookup(params, Store)]]
    /\ UNCHANGED <<tasks, next_task_id, notifications, conversation, fk_enforced,
                   session_active, clock, pc, ex, response, exchanges, call, ops, loaded>>

\* Lines 164-221 of complete_task_tool, in request h
CompleteLooksUp(h, user_id, task_id, task_title) ==
    /\ inflight[h].pc = "idle"
    /\ Looked(h, Val(CompleteTaskSchema(Args(Some(user_id), task_id, task_title, None, None,
                                             None, None, None))))

Finished(h, done) ==
    /\ tasks' = done.db.tasks
    /\ next_task_id' = done.db.next_task_id
    /\ notifications' = done.db.notifications
    /\ inflight' = [inflight EXCEPT ![h] = [pc |-> "done", params |-> inflight[h].params,
                                            r |-> inflight[h].r, result |-> done.result]]
    /\ UNCHANGED <<conversation, fk_enforced, session_active, clock, pc, ex, response,
                   exchanges, call, ops, loaded>>

\* Lines 223-252 of complete_task_tool, in request h
CompleteFinishes(h) ==
    /\ inflight[h].pc = "resolved"
    /\ Finished(h, CompleteResolved(inflight[h].params, Store, fk_enforced, inflight[h].r))

NextRace ==
    \/ \E h \in Handlers, user_id \in Users, task_id \in Opt({1, 3}),
          task_title \in Opt({S_ab, S_c}) :
          CompleteLooksUp(h, user_id, task_id, task_title)
    \/ \E h \in Handlers : CompleteFinishes(h)

SpecRace == Init /\ [][NextRace]_vars

-----------------------------------------------------------------------------
(* Due dates: PATCH and PUT on /tasks/{task_id} change a task's due date, and the
   scheduler's job writes the overdue notifications. Times are clock values. *)

MaxDueOps == 3
Dates == {StartClock, StartClock + 1}

\* Task 1 of user 1 is due now and has had no overdue notification yet
DueTasks ==
    {IF t.id = 1 THEN [t EXCEPT !.due_date = Some(StartClock)] ELSE t : t \in StartTasks}

Answer(method, user_id, task_id, due_date, status) ==
    [tool |-> method, arguments |-> [task_id |-> task_id, due_date |-> due_date],
     result |-> [status |-> status], before |-> Store, by |-> user_id]

\* "if not existing_task or existing_task.user_id != current_user.id"
Owned(found, user_id) == IsSome(found) /\ Val(found).user_id = user_id

\* PATCH /tasks/{task_id} with a body that holds due_date, or nothing
PatchOwned(user_id, task_id, due_date, found) ==
    IF ~Owned(found, user_id)
    THEN /\ call' = Answer("PATCH", user_id, task_id, due_date, 404)
         /\ UNCHANGED <<tasks, notifications>>
    ELSE /\ tasks' = patch_task(Store, task_id,
                                [title |-> None, description |-> None, priority |-> None,
                                 completed |-> None, due_date |-> due_date]).db.tasks
         /\ notifications' = Append(notifications,
                                    Notification(user_id, task_id, "task_updated", "Updated:",
                                                 Val(found).title))
         /\ call' = Answer("PATCH", user_id, task_id, due_date, 200)

PatchDue(user_id, task_id, due_date) ==
    /\ ops < MaxDueOps
    /\ ops' = ops + 1
    /\ PatchOwned(user_id, task_id, due_date, get_task(Store, task_id))
    /\ UNCHANGED <<next_task_id, conversation, fk_enforced, session_active, clock, pc, ex,
                   response, exchanges, loaded, inflight>>

\* PUT /tasks/{task_id} with the stored title, description, priority and
\* completion flag and a due date
PutOwned(user_id, task_id, due_date, found) ==
    IF ~Owned(found, user_id)
    THEN /\ call' = Answer("PUT", user_id, task_id, due_date, 404)
         /\ UNCHANGED tasks
    ELSE /\ tasks' = update_task(Store, task_id,
                                 [title |-> Val(found).title,
                                  description |-> Val(found).description,
                                  priority |-> Val(found).priority,
                                  completed |-> Val(found).completed,
                                  due_date |-> due_date]).db.tasks
         /\ call' = Answer("PUT", user_id, task_id, due_date, 200)

PutDue(user_id, task_id, due_date) ==
    /\ ops < MaxDueOps
    /\ ops' = ops + 1
    /\ PutOwned(user_id, task_id, due_date, get_task(Store, task_id))
    /\ UNCHANGED <<next_task_id, notifications, conversation, fk_enforced, session_active,
                   clock, pc, ex, response, exchanges, loaded, inflight>>

\* Query 2 of check_reminders_and_overdue
OverdueTasks(rows, now) ==
    {t \in rows : /\ IsSome(t.due_date) /\ Val(t.due_date) <= now
                  /\ ~t.completed
                  /\ ~IsSome(t.last_overdue_notification_sent)}

OverdueNotifications(ordered) ==
    [k \in 1..Len(ordered) |->
        Notification(ordered[k].user_id, ordered[k].id, "overdue", "This task was due",
                     ordered[k].title)]

\* The scheduler's job: no task has a reminder_time, so query 1 selects nothing
check_reminders_and_overdue ==
    /\ ops < MaxDueOps
    /\ ops' = ops + 1
    /\ notifications' = notifications
                          \o OverdueNotifications(OrderByIdDesc(OverdueTasks(tasks, clock),
                                                                next_task_id - 1))
    /\ tasks' = {IF t \in OverdueTasks(tasks, clock)
                 THEN [t EXCEPT !.last_overdue_notification_sent = Some(clock)]
                 ELSE t : t \in tasks}
    /\ call' = [tool |-> "scheduler", arguments |-> [now |-> clock],
                result |-> [status |-> 0], before |-> Store, by |-> 0]
    /\ UNCHANGED <<next_task_id, conversation, fk_enforced, session_active, clock, pc, ex,
                   response, exchanges, loaded, inflight>>

TickDue ==
    /\ ops < MaxDueOps
    /\ Elapse

InitDue ==
    /\ tasks = DueTasks
    /\ next_task_id = 4
    /\ notifications = StartNotifications
    /\ conversation = << >>
    /\ fk_enforced \in BOOLEAN
    /\ session_active = TRUE
    /\ clock = StartClock
    /\ pc = "idle"
    /\ ex = NoExchange
    /\ response = NoResponse
    /\ exchanges = 0
    /\ call = NoCall
    /\ ops = 0
    /\ loaded = NoLoad
    /\ inflight = NoHandlers

NextDue ==
    \/ \E user_id \in Users, task_id \in {1, 3}, due_date \in Opt(Dates) :
          PatchDue(user_id, task_id, due_date)
    \/ \E user_id \in Users, task_id \in {1, 3}, due_date \in Opt(Dates) :
          PutDue(user_id, task_id, due_date)
    \/ check_reminders_and_overdue
    \/ TickDue

SpecDue == InitDue /\ [][NextDue]_vars

-----------------------------------------------------------------------------
(* The conversation store called directly *)

MaxTurns == 5
MaxLimit == 3
Conversations == {1, 2}

AppendTurn(conversation_id, user_id, role) ==
    /\ ops < MaxTurns
    /\ ops' = ops + 1
    /\ conversation' = create_conversation_message(conversation, conversation_id, user_id,
                                                   role, <<"h", "i">>, None)
    /\ UNCHANGED <<tasks, next_task_id, notifications, fk_enforced, session_active, clock, pc,
                   ex, response, exchanges, call, loaded, inflight>>

LoadHistory(conversation_id, limit) ==
    /\ loaded' = [conversation_id |-> conversation_id, limit |-> limit, rows |-> conversation,
                  messages |-> get_conversation_history(conversation, conversation_id, limit)]
    /\ UNCHANGED <<tasks, next_task_id, notifications, conversation, fk_enforced,
                   session_active, clock, pc, ex, response, exchanges, call, ops, inflight>>

InitHistory ==
    /\ tasks = {}
    /\ next_task_id = 1
    /\ notifications = << >>
    /\ conversation = << >>
    /\ fk_enforced = FALSE
    /\ session_active = TRUE
    /\ clock = StartClock
    /\ pc = "idle"
    /\ ex = NoExchange
    /\ response = NoResponse
    /\ exchanges = 0
    /\ call = NoCall
    /\ ops = 0
    /\ loaded = NoLoad
    /\ inflight = NoHandlers

NextHistory ==
    \/ \E conversation_id \in Conversations, role \in {"user", "assistant"} :
          AppendTurn(conversation_id, 1, role)
    \/ \E conversation_id \in Conversations, limit \in 1..MaxLimit :
          LoadHistory(conversation_id, limit)

SpecHistory == InitHistory /\ [][NextHistory]_vars

-----------------------------------------------------------------------------
(* The properties.  `call` holds the last tool invocation: its arguments as     *)
(* handed to _execute_tool, its result and the store it started from.           *)

IsCall == call.tool # "none"
IsResolverCall == call.tool \in {"complete_task", "delete_task", "update_task"}
Caller == Val(call.arguments.user_id)
ByTitleCall == IsSome(call.arguments.task_title) /\ Truthy(Val(call.arguments.task_title))
OthersTasks(ts, u) == {t \in ts : t.user_id # u}
OthersNotifications(ns, u) == SelectSeq(ns, LAMBDA n : n.user_id # u)
StoreUntouched ==
    /\ tasks = call.before.tasks
    /\ notifications = call.before.notifications

\* C1: every tool invocation executed in an exchange of user U runs with
\* user_id = U, whatever arguments the model emitted, so it lists no task of
\* another user and leaves the tasks and notifications of the other users as
\* they were.
C1_RunsAsAuthenticatedUser ==
    IsCall =>
        /\ call.arguments.user_id = Some(call.by)
        /\ OthersTasks(tasks, call.by) = OthersTasks(call.before.tasks, call.by)
        /\ OthersNotifications(notifications, call.by)
              = OthersNotifications(call.before.notifications, call.by)
        /\ (call.tool = "list_tasks" /\ call.result.success) =>
              \A i \in 1..Len(call.result.tasks) :
                 \E t \in tasks : t.id = call.result.tasks[i].id /\ t.user_id = call.by

\* C2: a complete_task, delete_task or update_task invocation made as user B,
\* by id or by title, never resolves a task of another user: every task B does
\* not own is left as it was, a success names a task of B, and an invocation
\* by the id of another user's task returns success = FALSE.
C2_OwnershipIsolation ==
    IsResolverCall =>
        /\ OthersTasks(tasks, Caller) = OthersTasks(call.before.tasks, Caller)
        /\ call.result.success =>
              \E t \in call.before.tasks : t.id = call.result.task_id /\ t.user_id = Caller
        /\ (~ByTitleCall /\ IsSome(call.arguments.task_id)
              /\ \E t \in call.before.tasks :
                    t.id = Val(call.arguments.task_id) /\ t.user_id # Caller)
           => ~call.result.success
        /\ (ByTitleCall
              /\ ~\E t \in call.before.tasks :
                    /\ t.user_id = Caller
                    /\ Contains(LowerStr(Val(call.arguments.task_title)), LowerStr(t.title)))
           => ~call.result.success

\* C2 happens: user 1 names task 3 of user 2 by its id and is refused
C2_Witness ==
    /\ IsResolverCall
    /\ Caller = 1
    /\ ~ByTitleCall
    /\ call.arguments.task_id = Some(3)
    /\ \E t \in tasks : t.id = 3 /\ t.user_id = 2
    /\ call.result.error = "Permission denied"

\* The tasks a title query is about: those of the caller, pending ones only for
\* complete_task
InScope(t) ==
    /\ t.user_id = Caller
    /\ call.tool = "complete_task" => ~t.completed
Query == Val(call.arguments.task_title)
ExactlyEqual == {t \in call.before.tasks : InScope(t) /\ LowerStr(t.title) = LowerStr(Query)}
Acted == {t \in call.before.tasks : t \notin tasks}

\* C3: when the caller has a task (for complete_task a pending one) whose title
\* equals the queried title case-insensitively, however many tasks the caller
\* owns, the title resolves to an exactly-equal task: a lone exact match is
\* neither missed nor made ambiguous, several exact matches are the only
\* candidates listed, and no other task is changed.
C3_ExactMatchWins ==
    (IsResolverCall /\ ByTitleCall /\ ExactlyEqual # {}) =>
        /\ Acted \subseteq ExactlyEqual
        /\ call.result.success => \E t \in ExactlyEqual : t.id = call.result.task_id
        /\ Cardinality(ExactlyEqual) = 1 =>
              (~call.result.success => call.result.error \notin {"Multiple matches",
                                                                "Task not found"})
        /\ Cardinality(ExactlyEqual) > 1 =>
              /\ ~call.result.success /\ call.result.error = "Multiple matches"
              /\ \A i \in 1..Len(call.result.message.items) :
                    \E t \in ExactlyEqual : call.result.message.items[i] = <<t.id, t.title>>

\* The rows the title search hands to the matching passes: the SearchLimit newest
\* tasks in scope that carry the query in title or description
Searched ==
    {t \in call.before.tasks :
        /\ InScope(t)
        /\ \/ Contains(LowerStr(Query), LowerStr(t.title))
           \/ Contains(LowerStr(Query), LowerStr(t.description))}
Fetched == {t \in Searched : Cardinality({u \in Searched : u.id > t.id}) < SearchLimit}
ExactPass == {t \in Fetched : LowerStr(t.title) = LowerStr(Query)}
SubstringPass == {t \in Fetched : Contains(LowerStr(Query), LowerStr(t.title))}
WinningPass == IF ExactPass # {} THEN ExactPass ELSE SubstringPass
Listed == {call.result.message.items[i] : i \in 1..Len(call.result.message.items)}

\* C4: when the winning matching pass (the exact pass if it has hits, otherwise
\* the substring pass) yields more than one task of the caller, complete_task,
\* delete_task and update_task return success = FALSE with "Multiple matches",
\* list exactly those tasks as (id, title) pairs, change or delete no task and
\* add no notification.
C4_Ambiguity ==
    (IsResolverCall /\ ByTitleCall /\ Cardinality(WinningPass) > 1) =>
        /\ ~call.result.success
        /\ call.result.error = "Multiple matches"
        /\ Listed = {<<t.id, t.title>> : t \in WinningPass}
        /\ Len(call.result.message.items) = Cardinality(WinningPass)
        /\ StoreUntouched

\* C4 happens: user 1 asks for "b", which "ab" and "abc" contain and no title equals
C4_Witness ==
    /\ IsResolverCall /\ ByTitleCall
    /\ Caller = 1
    /\ Query = <<"b">>
    /\ ExactPass = {}
    /\ Cardinality(SubstringPass) = 2
    /\ call.result.error = "Multiple matches"

InExchange == ex # NoExchange
Log == ex.tool_calls_log
Failed(i) == ~Log[i].result.success

\* C5: _execute_tool always returns a result envelope; an unknown tool, a
\* validation failure and an exception raised in the handler yield
\* success = FALSE, the failed invocation is the entry the tool-call log ends
\* with, and an exchange that had a failed invocation still ends with a normal
\* response carrying the log.
C5_FailuresAreContained ==
    /\ IsCall =>
          /\ "success" \in DOMAIN call.result
          /\ Log # << >>
          /\ Log[Len(Log)] = [tool |-> call.tool, arguments |-> call.arguments,
                              result |-> call.result]
    /\ (IsCall /\ (call.tool \notin TOOLS \/ ~IsSome(Validate(call.tool, call.arguments)))) =>
          ~call.result.success /\ StoreUntouched
    /\ (pc = "done" /\ InExchange /\ \E i \in 1..Len(Log) : Failed(i)) =>
          /\ response.status = 200
          /\ response.tool_calls = Some(Log)

\* The tool calls the model asked for in this exchange, as (message, position)
RequestedCalls ==
    UNION {{<<i, j>> : j \in 1..Len(ex.messages[i].tool_calls)} :
             i \in {k \in 1..Len(ex.messages) :
                      /\ ex.messages[k].role = "assistant"
                      /\ "tool_calls" \in DOMAIN ex.messages[k]}}
CapReached == IsSome(ex.agent) /\ Val(ex.agent).error = Some("Max iterations reached")

C6_Bounded ==
    InExchange =>
        /\ ex.model_calls <= MAX_ITERATIONS
        /\ ex.model_calls = ex.iterations
        /\ pc = "tools" => ex.pending # << >>
        /\ (pc = "model" /\ ex.model_calls = MAX_ITERATIONS) => Len(Log) >= MAX_ITERATIONS
        /\ CapReached =>
              /\ ex.model_calls = MAX_ITERATIONS
              /\ Val(ex.agent).assistant_message = APOLOGY
              /\ Val(ex.agent).iterations = MAX_ITERATIONS
              /\ Val(ex.agent).tool_calls = Some(Log)
              /\ Len(Log) = Cardinality(RequestedCalls)
              /\ Len(Log) >= MAX_ITERATIONS

\* The variant of the loop: the rounds left, then the invocations of the round
\* still to run
RoundsLeft == MAX_ITERATIONS - ex.iterations
C6_Progress ==
    pc \in {"model", "tools"} =>
        \/ pc' = "returned"
        \/ RoundsLeft' < RoundsLeft /\ RoundsLeft' >= 0
        \/ RoundsLeft' = RoundsLeft /\ Len(ex'.pending) < Len(ex.pending)

\* C6: an exchange calls the language model at most MAX_ITERATIONS times and
\* its loop always returns (each of its steps returns or lowers the rounds left
\* or, within a round, the invocations pending, and no step of it is blocked);
\* when the model asked for tools in every round the loop returns after exactly
\* MAX_ITERATIONS model calls with the apology, the iteration count
\* MAX_ITERATIONS and a log of every invocation of those rounds.
C6_IterationCap ==
    /\ []C6_Bounded
    /\ [][C6_Progress]_vars

\* C6 happens: five rounds of tool calls, then the apology
C6_Witness ==
    /\ pc = "returned"
    /\ CapReached
    /\ ex.model_calls = MAX_ITERATIONS
    /\ Len(Log) >= MAX_ITERATIONS

ModelCallFailed == pc = "returned" /\ Val(ex.agent).error = Some("timeout")

C7_Returned ==
    ModelCallFailed =>
        /\ Val(ex.agent).assistant_message = ErrorText("timeout")
        /\ Val(ex.agent).tool_calls = LogOrNone(Log)
        /\ Val(ex.agent).iterations = ex.model_calls

C7_FailingCall ==
    (pc = "model" /\ ModelCallFailed') =>
        /\ ex'.tool_calls_log = ex.tool_calls_log
        /\ ex'.model_calls = ex.model_calls + 1
        /\ tasks' = tasks
        /\ notifications' = notifications

C7_NothingAfter ==
    ModelCallFailed =>
        /\ pc' = "done"
        /\ ex' = ex
        /\ tasks' = tasks
        /\ notifications' = notifications
        /\ call' = call

\* C7: when the model call of round k raises, the loop makes no further model
\* call and runs no further tool; it returns the error message and the
\* tool-call log of rounds 1..k-1, whose effects on the store stay.
C7_ModelFailureStops ==
    /\ []C7_Returned
    /\ [][C7_FailingCall]_vars
    /\ [][C7_NothingAfter]_vars

\* C7 happens: the model call of a later round fails after a tool ran
C7_Witness ==
    /\ ModelCallFailed
    /\ ex.model_calls >= 2
    /\ Len(Log) >= 1

Grown(n) ==
    /\ Len(conversation) = Len(ex.base) + n
    /\ SubSeq(conversation, 1, Len(ex.base)) = ex.base
UserTurn == conversation[Len(ex.base) + 1]
AssistantTurn == conversation[Len(ex.base) + 2]
IsTurnOfExchange(row, role) ==
    /\ row.role = role
    /\ row.conversation_id = ex.conversation_id
    /\ row.user_id = ex.user_id

\* C8: after an accepted exchange, whatever the outcome of its loop and however
\* many tools ran, the conversation log has grown by exactly two turns, the
\* user turn and after it the assistant turn; the tool invocations are in the
\* assistant turn's tool-call log only.
C8_TwoTurnsPerExchange ==
    (pc = "done" /\ InExchange) =>
        /\ Grown(2)
        /\ IsTurnOfExchange(UserTurn, "user")
        /\ UserTurn.tool_calls = None
        /\ IsTurnOfExchange(AssistantTurn, "assistant")
        /\ AssistantTurn.tool_calls = LogOrNone(Log)

C9_Order ==
    /\ pc \in {"model", "tools", "returned"} =>
          /\ Grown(1)
          /\ IsTurnOfExchange(UserTurn, "user")
          /\ UserTurn.content = ex.message
    /\ (pc = "done" /\ InExchange /\ response.status = 200) =>
          /\ Grown(2)
          /\ IsTurnOfExchange(AssistantTurn, "assistant")
          /\ AssistantTurn.content = response.assistant_message
          /\ AssistantTurn.tool_calls = response.tool_calls
          /\ response.tool_calls = LogOrNone(Log)

C9_SavedAfterLoop ==
    (pc \in {"model", "tools", "returned"} /\ conversation' # conversation) =>
        /\ pc = "returned"
        /\ tasks' = tasks
        /\ notifications' = notifications
        /\ ex' = ex

\* C9: the user turn is saved before the first model call; the assistant turn
\* is saved only after the loop has returned, when every tool invocation has
\* had its effects on tasks and notifications; the tool-call log saved in the
\* assistant turn is the one the caller receives.
C9_PersistenceOrder ==
    /\ []C9_Order
    /\ [][C9_SavedAfterLoop]_vars

\* C9 happens: an exchange with tool calls was answered and saved
C9_Witness ==
    /\ pc = "done" /\ InExchange
    /\ response.status = 200
    /\ Len(Log) >= 2
    /\ AssistantTurn.tool_calls = Some(Log)

TurnsOfLoaded == SelectSeq(loaded.rows, LAMBDA r : r.conversation_id = loaded.conversation_id)
WindowSize == Min(Len(TurnsOfLoaded), loaded.limit)

\* C10: get_conversation_history(conversation_id, limit) returns exactly the
\* min(n, limit) most recently appended turns of that conversation and of no
\* other, oldest first; the turns it drops are the oldest.
C10_SlidingWindow ==
    loaded # NoLoad =>
        /\ Len(loaded.messages) = WindowSize
        /\ \A i \in 1..WindowSize :
              loaded.messages[i] = TurnsOfLoaded[Len(TurnsOfLoaded) - WindowSize + i]

\* C10 happens: more turns than the limit, and turns of another conversation
C10_Witness ==
    /\ loaded # NoLoad
    /\ Len(TurnsOfLoaded) > loaded.limit
    /\ loaded.limit >= 2
    /\ Len(loaded.rows) > Len(TurnsOfLoaded)
    /\ loaded.messages[1] # TurnsOfLoaded[1]

IsMutation == call.tool \in {"add_task", "complete_task", "delete_task", "update_task"}
TypeTag ==
    CASE call.tool = "add_task" -> "task_created"
      [] call.tool = "complete_task" -> "task_completed"
      [] call.tool = "delete_task" -> "task_deleted"
      [] call.tool = "update_task" -> "task_updated"
      [] OTHER -> "none"
\* The ids of the tasks the invocation removed, and the notification rows of before
\* that are still there (those of a removed task go with the task)
RemovedIds == {t.id : t \in call.before.tasks} \ {t.id : t \in tasks}
KeptRows == SelectSeq(call.before.notifications, LAMBDA n : n.task_id \notin RemovedIds)
AddedRows == SubSeq(notifications, Len(KeptRows) + 1, Len(notifications))
Affected(id) ==
    IF call.tool = "delete_task" THEN RemovedIds = {id}
    ELSE \E t \in tasks : t.id = id /\ t.user_id = Caller

\* C11: an add_task, complete_task, delete_task or update_task invocation that
\* returns success = TRUE appends exactly one notification row, carrying the
\* acting user's id, the affected task's id and the type tag of the operation;
\* list_tasks and every invocation that returns success = FALSE append none.
C11_OneNotificationPerSuccess ==
    IsCall =>
        /\ Len(notifications) >= Len(KeptRows)
        /\ SubSeq(notifications, 1, Len(KeptRows)) = KeptRows
        /\ IF IsMutation /\ call.result.success
           THEN /\ Len(AddedRows) = 1
                /\ AddedRows[1].user_id = Caller
                /\ AddedRows[1].task_id = call.result.task_id
                /\ AddedRows[1].type = TypeTag
                /\ Affected(call.result.task_id)
           ELSE AddedRows = << >>

\* C11 happens: a second successful mutation, its row after the earlier ones
C11_Witness ==
    /\ IsCall /\ call.tool = "complete_task" /\ call.result.success
    /\ Len(call.before.notifications) = 2
    /\ Len(notifications) = 3

\* C12: when delete_task removes a task with id i and title T, the row is gone,
\* the envelope reports success = TRUE with task_id = i, and the newest
\* notification is the task_deleted row of the acting user for task i whose
\* message is Deleted: "T", T being the title the row had before it was removed.
C12_DeleteNotification ==
    (IsCall /\ call.tool = "delete_task") =>
        /\ call.result.success => RemovedIds = {call.result.task_id}
        /\ \A t \in call.before.tasks :
              t.id \in RemovedIds =>
                 /\ call.result.success
                 /\ call.result.task_id = t.id
                 /\ notifications # << >>
                 /\ notifications[Len(notifications)]
                       = Notification(Caller, t.id, "task_deleted", "Deleted:", t.title)

\* The rounds of the in-flight message sequence: a round starts at the assistant
\* message that carries the requested tool calls and runs to the next such message
RoundStarts ==
    {i \in 1..Len(ex.messages) :
        ex.messages[i].role = "assistant" /\ "tool_calls" \in DOMAIN ex.messages[i]}
LaterStarts(i) == {j \in RoundStarts : j > i}
RoundEnd(i) ==
    IF LaterStarts(i) = {} THEN Len(ex.messages)
    ELSE (CHOOSE j \in LaterStarts(i) : \A k \in LaterStarts(i) : j <= k) - 1
Answered(i) == RoundEnd(i) - i
Emitted(i) == ex.messages[i].tool_calls
RoundInOrder(i) ==
    /\ Answered(i) <= Len(Emitted(i))
    /\ \A j \in 1..Answered(i) :
          /\ ex.messages[i + j].role = "tool"
          /\ ex.messages[i + j].tool_call_id = Emitted(i)[j].id
          /\ ex.messages[i + j].name = Emitted(i)[j].name
RoundComplete(i) == Answered(i) = Len(Emitted(i))
ToolMessages == SelectSeq(ex.messages, LAMBDA m : m.role = "tool")
LastStart == CHOOSE i \in RoundStarts : LaterStarts(i) = {}

C13_InOrder ==
    InExchange =>
        /\ \A i \in RoundStarts :
              /\ RoundInOrder(i)
              /\ LaterStarts(i) # {} => RoundComplete(i)
        /\ Len(ToolMessages) = Len(Log)
        /\ \A j \in 1..Len(Log) :
              /\ Log[j].tool = ToolMessages[j].name
              /\ Log[j].result = ToolMessages[j].content
        /\ pc = "tools" =>
              /\ RoundStarts # {}
              /\ ex.pending # << >>
              /\ ex.pending = SubSeq(Emitted(LastStart), Answered(LastStart) + 1,
                                     Len(Emitted(LastStart)))
        /\ pc = "model" => \A i \in RoundStarts : RoundComplete(i)

\* An invocation runs on the store the one before it left
C13_SeesEarlier ==
    (pc = "tools" /\ pc' \in {"tools", "model"}) =>
        /\ call'.tool = Head(ex.pending).name
        /\ call'.before = Store
        /\ call'.result
              = execute_tool(call'.tool, call'.arguments, Store, fk_enforced).result
        /\ tasks' = execute_tool(call'.tool, call'.arguments, Store, fk_enforced).db.tasks
        /\ notifications'
              = execute_tool(call'.tool, call'.arguments, Store, fk_enforced).db.notifications

\* The language model is called again only when every call of every round is answered
C13_NextCallAfterRound ==
    (InExchange /\ exchanges' = exchanges /\ ex'.model_calls # ex.model_calls) =>
        /\ pc = "model"
        /\ \A i \in RoundStarts : RoundComplete(i)

\* C13: the tool calls of one model round are executed one at a time in the
\* order the model emitted them, each on the store the earlier ones left; the
\* tool-call log and the tool result messages follow that order, each result
\* message carrying its call's tool_call_id; and the model is called again only
\* after every call of the round has its result message.
C13_EmissionOrder ==
    /\ []C13_InOrder
    /\ [][C13_SeesEarlier]_vars
    /\ [][C13_NextCallAfterRound]_vars

\* C13 happens: a round of two calls, the second finding the task the first made,
\* is over and the model has been called again
C13_Witness ==
    /\ InExchange /\ pc = "returned" /\ ex.model_calls = 2
    /\ Len(Log) = 2
    /\ Log[1].tool = "add_task" /\ Log[1].result.success
    /\ Log[2].tool = "update_task" /\ Log[2].result.success
    /\ Log[2].result.task_id = Log[1].result.task_id

\* C14: every accepted exchange, on every failure path (a tool failure, a failed
\* model call, the iteration cap, a store operation that raises while a turn is
\* persisted), ends with the response object {conversation_id, user_message,
\* assistant_message, tool_calls}; no error status reaches the caller.
C14_AlwaysWellFormed ==
    (pc = "done" /\ InExchange) =>
        /\ response.status = 200
        /\ {"conversation_id", "user_message", "assistant_message", "tool_calls"}
              \subseteq DOMAIN response
        /\ response.conversation_id = ex.conversation_id
        /\ response.user_message = ex.message
        /\ response.assistant_message = Val(ex.agent).assistant_message
        /\ response.tool_calls = LogOrNone(Log)

TurnsUnder(cid) == SelectSeq(conversation, LAMBDA r : r.conversation_id = cid)
ForeignHistory ==
    \E i \in 1..Len(ex.base) :
        /\ ex.base[i].conversation_id = ex.conversation_id
        /\ ex.base[i].user_id # ex.user_id

\* C15: all turns stored under one conversation id carry the same user id; an
\* exchange of user B on the conversation id of a conversation of user A
\* appends no turn to it and loads no turn of A into B's prompt.
C15_ConversationOwnership ==
    /\ \A i, j \in 1..Len(conversation) :
          conversation[i].conversation_id = conversation[j].conversation_id
             => conversation[i].user_id = conversation[j].user_id
    /\ (InExchange /\ ForeignHistory) =>
          /\ TurnsUnder(ex.conversation_id) = SelectSeq(ex.base,
                LAMBDA r : r.conversation_id = ex.conversation_id)
          /\ ex.history = << >>

ByIdCall ==
    /\ ~ByTitleCall
    /\ IsSome(call.arguments.task_id)
OthersTaskById ==
    \E t \in call.before.tasks : t.id = Val(call.arguments.task_id) /\ t.user_id # Caller
\* What the handlers answer when no task has the id
NotFoundById(id) == Failure("Task not found", Msg("Task with ID not found", << >>, id, << >>))

\* C16: complete_task, delete_task and update_task called with the id of a task
\* of another user answer what they answer when no task has that id: the same
\* error and the same message, so the two cases cannot be told apart.
C16_NoExistenceLeak ==
    (IsResolverCall /\ ByIdCall /\ OthersTaskById) =>
        /\ call.result = NotFoundById(Val(call.arguments.task_id))
        /\ StoreUntouched

HasId == IsSome(call.arguments.task_id)
HasTitle == IsSome(call.arguments.task_title)
\* The same invocation with task_title left out
ByIdAlone ==
    execute_tool(call.tool, [call.arguments EXCEPT !.task_title = None], call.before,
                 fk_enforced)

\* C17: a complete_task, delete_task or update_task invocation that carries a
\* task_id is resolved by that id, whatever task_title it also carries: it
\* answers and acts as the same invocation without the title; with neither a
\* task_id nor a task_title the result is 'Missing parameter' and the store is
\* as it was.
C17_IdPrecedence ==
    IsResolverCall =>
        /\ HasId =>
              /\ call.result = ByIdAlone.result
              /\ tasks = ByIdAlone.db.tasks
              /\ notifications = ByIdAlone.db.notifications
        /\ (~HasId /\ ~HasTitle) =>
              /\ ~call.result.success
              /\ call.result.error = "Missing parameter"
              /\ StoreUntouched

\* The caller's tasks whose title carries the query, pending or completed, and
\* among them the ones the two matching passes would settle on
TitleHits ==
    {t \in call.before.tasks :
        t.user_id = Caller /\ Contains(LowerStr(Query), LowerStr(t.title))}
ExactHits == {t \in TitleHits : LowerStr(t.title) = LowerStr(Query)}
WinningHits == IF ExactHits # {} THEN ExactHits ELSE TitleHits
WasPending(id) == \E t \in call.before.tasks : t.id = id /\ ~t.completed

\* C18: complete_task by title never resolves a task that is already completed:
\* a success names a task that was pending, an ambiguity lists pending tasks
\* only, and when every title match is completed the result is 'Task not found'
\* and nothing changes; delete_task and update_task by title resolve a
\* completed task like any other.
C18_PendingOnlyScope ==
    (IsResolverCall /\ ByTitleCall) =>
        /\ call.tool = "complete_task" =>
              /\ call.result.success => WasPending(call.result.task_id)
              /\ (~call.result.success /\ call.result.error = "Multiple matches") =>
                    \A i \in 1..Len(call.result.message.items) :
                       WasPending(call.result.message.items[i][1])
              /\ (\A t \in TitleHits : t.completed) =>
                    /\ ~call.result.success
                    /\ call.result.error = "Task not found"
                    /\ StoreUntouched
        /\ call.tool \in {"delete_task", "update_task"} =>
              \A t \in WinningHits :
                 (WinningHits = {t} /\ t.completed) =>
                    /\ call.result.success => call.result.task_id = t.id
                    /\ ~call.result.success =>
                          call.result.error \notin {"Task not found", "Multiple matches"}
                    /\ \A u \in call.before.tasks : u.id # t.id => u \in tasks

\* C18 happens: the only task of user 1 titled "c" is completed; complete_task
\* does not find it
C18_Witness ==
    /\ IsCall /\ call.tool = "complete_task" /\ ByTitleCall
    /\ Caller = 1 /\ Query = S_c
    /\ TitleHits # {}
    /\ \A t \in TitleHits : t.completed
    /\ call.result.error = "Task not found"

\* and delete_task does
C18_WitnessDelete ==
    /\ IsCall /\ call.tool = "delete_task" /\ ByTitleCall
    /\ Caller = 1 /\ Query = S_c
    /\ \E t \in TitleHits : t.completed /\ WinningHits = {t}
    /\ call.result.success

\* C19: every result recorded in the tool-call log, on every path of the Tool
\* Executor (success, resolver failure, unknown tool, validation failure, handler
\* exception), has a boolean field success and a field message.
C19_UniformEnvelope ==
    InExchange =>
        \A i \in 1..Len(Log) :
           /\ "success" \in DOMAIN Log[i].result
           /\ Log[i].result.success \in BOOLEAN
           /\ "message" \in DOMAIN Log[i].result

C20_PureInsert ==
    conversation' # conversation =>
        /\ Len(conversation') = Len(conversation) + 1
        /\ SubSeq(conversation', 1, Len(conversation)) = conversation
        /\ \A cid \in ConversationIds :
              SubSeq(SelectSeq(conversation', LAMBDA r : r.conversation_id = cid),
                     1, Len(TurnsUnder(cid))) = TurnsUnder(cid)

\* C20: appending a turn inserts exactly one row and leaves every turn stored
\* before, of any conversation, as it was: no step of an exchange updates or
\* deletes a turn, and the turns of a conversation only grow at the end.
C20_AppendOnly == [][C20_PureInsert]_vars

\* C20 happens: an exchange on a new conversation has saved its two turns after
\* the two turns of an older conversation
C20_Witness ==
    /\ pc = "done" /\ InExchange
    /\ response.status = 200
    /\ Len(ex.base) = 2
    /\ ex.conversation_id \notin {ex.base[1].conversation_id}
    /\ Len(conversation) = 4
    /\ Len(TurnsUnder(ex.conversation_id)) = 2

\* C21: an exchange that starts a new conversation (no conversation id in the request)
\* gets an id under which no turn is stored yet, so two such exchanges never share a
\* conversation; an exchange that supplies a conversation id is answered with that id
C21_SuppliedIdEchoed ==
    (pc = "done" /\ response.status = 200 /\ IsSome(ex.requested))
        => response.conversation_id = Val(ex.requested)

C21_FreshConversationIds ==
    /\ (InExchange /\ ~IsSome(ex.requested))
        => \A i \in 1..Len(ex.base) : ex.base[i].conversation_id # ex.conversation_id
    /\ C21_SuppliedIdEchoed

\* A requested call whose payload is no JSON object, or whose arguments (with the
\* user id injected) fail the tool's schema
BadPayload(tool_call) ==
    \/ tool_call.arguments.kind # "object"
    \/ /\ tool_call.name \in TOOLS
       /\ ~IsSome(Validate(tool_call.name,
                           Val(InjectUserId(tool_call.arguments, ex.user_id))))

\* A call with a payload that fails schema validation is answered with a failed
\* envelope and the calls after it in the round are still executed
C22_InvalidIsContained ==
    (InExchange /\ pc # "tools") =>
        \A i \in RoundStarts :
            (\A j \in 1..Len(Emitted(i)) : Emitted(i)[j].arguments.kind = "object")
                => /\ RoundComplete(i)
                   /\ \A j \in 1..Len(Emitted(i)) :
                         BadPayload(Emitted(i)[j]) => ~ex.messages[i + j].content.success

\* C22: a tool invocation whose payload is malformed (no JSON object) or fails
\* schema validation yields a failed envelope for that invocation only: it is in
\* the tool-call log, the remaining invocations of the round are still executed
\* and answered, and the exchange goes on to the next model call
C22_BadPayloadIsContained ==
    (InExchange /\ pc # "tools") =>
        \A i \in RoundStarts :
            /\ RoundComplete(i)
            /\ \A j \in 1..Len(Emitted(i)) :
                  BadPayload(Emitted(i)[j]) => ~ex.messages[i + j].content.success

\* The first tool call the model requested in the running exchange, as emitted
FirstRound == CHOOSE i \in RoundStarts : \A k \in RoundStarts : i <= k
FirstEmitted == Emitted(FirstRound)[1]
OnlyTitle(object) ==
    /\ IsSome(object.title)
    /\ object = Args(None, None, None, object.title, None, None, None, None)
AddOnlyTitle ==
    /\ InExchange /\ IsCall /\ Len(Log) = 1
    /\ FirstEmitted.name = "add_task"
    /\ FirstEmitted.arguments.kind = "object"
    /\ OnlyTitle(FirstEmitted.arguments.object)
    /\ StrLen(Val(FirstEmitted.arguments.object.title)) >= 1
    /\ TitleOk(Val(FirstEmitted.arguments.object.title))

ListStatus == Default(call.arguments.status, "all")
ListLimit == Default(call.arguments.limit, ListLimitDefault)
Listable ==
    {t \in call.before.tasks :
        /\ t.user_id = Caller
        /\ ListStatus = "pending" => ~t.completed
        /\ ListStatus = "completed" => t.completed
        /\ IsSome(call.arguments.priority) => t.priority = Val(call.arguments.priority)}
Returned == call.result.tasks

\* C24: list_tasks returns only tasks of the requesting user; with status pending
\* only tasks not completed, with completed only completed ones, with all both;
\* tasks are left out only where the limit cuts the list; the number of tasks
\* returned equals count and is at most limit; and it changes no task and adds no
\* notification
C24_ListTasks ==
    (IsCall /\ call.tool = "list_tasks") =>
        /\ tasks = call.before.tasks
        /\ notifications = call.before.notifications
        /\ call.result.success =>
              /\ \A i \in 1..Len(Returned) :
                    \E t \in Listable :
                        /\ t.id = Returned[i].id
                        /\ t.title = Returned[i].title
                        /\ t.completed = Returned[i].completed
              /\ \A i, j \in 1..Len(Returned) : i # j => Returned[i].id # Returned[j].id
              /\ call.result.count = Len(Returned)
              /\ Len(Returned) <= ListLimit
              /\ Len(Returned) = Min(ListLimit, Cardinality(Listable))

\* C24 happens: user 1, who also has a completed task, lists the pending ones
\* while user 2 has a pending task too
C24_Witness ==
    /\ IsCall /\ call.tool = "list_tasks" /\ call.result.success
    /\ Caller = 1 /\ ListStatus = "pending"
    /\ call.result.count = 2
    /\ \E t \in call.before.tasks : t.user_id = 1 /\ t.completed
    /\ \E t \in call.before.tasks : t.user_id = 2 /\ ~t.completed

\* The arguments the running exchange hands to the Tool Executor for the call at
\* the head of the round: the emitted mapping with user_id filled in where absent
Handed(object) ==
    [object EXCEPT !.user_id = IF IsSome(object.user_id) THEN object.user_id
                               ELSE Some(ex.user_id)]

C25_Passed ==
    (pc = "tools" /\ Len(ex'.tool_calls_log) = Len(Log) + 1) =>
        /\ Head(ex.pending).arguments.kind = "object"
        /\ IsSome(call'.arguments.user_id)
        /\ call'.arguments = Handed(Head(ex.pending).arguments.object)
        /\ ex'.tool_calls_log[Len(Log) + 1].arguments = call'.arguments
        /\ call'.result = execute_tool(Head(ex.pending).name, call'.arguments, Store,
                                       fk_enforced).result

\* C25: before validation the argument mapping always contains user_id: it is set
\* to the authenticated user's id when the model's arguments lack it, and a
\* user_id the model supplied is passed to the Tool Executor unchanged
C25_UserIdInjection == [][C25_Passed]_vars

\* C25 happens: in an exchange of user 1 a call carrying user_id 2 has been
\* executed with user_id 2, and in another a call without user_id ran as user 1
C25_Witness ==
    /\ InExchange /\ IsCall /\ ex.user_id = 1
    /\ call.arguments.user_id = Some(2)
    /\ FirstEmitted.arguments.object.user_id = Some(2)

C25_WitnessInjected ==
    /\ InExchange /\ IsCall /\ ex.user_id = 1 /\ Len(Log) = 1
    /\ call.arguments.user_id = Some(1)
    /\ FirstEmitted.arguments.object.user_id = None

\* Both handlers are over, having looked up the same task while it was pending
BothDone == \A h \in Handlers : inflight[h].pc = "done"
BothResolved(id) ==
    \A h \in Handlers :
        /\ ~inflight[h].r.done
        /\ inflight[h].r.id = id
        /\ ~inflight[h].r.task.completed
CompletedNotices(ns, id) ==
    Len(SelectSeq(ns, LAMBDA n : n.task_id = id /\ n.type = "task_completed"))

\* C26: nothing guards complete_task against a second, concurrent request: when
\* two handlers have both looked up the same pending task, whatever the order of
\* their remaining steps, both return success = true, the task is completed, and
\* two task_completed notifications have been written for it
C26_UnguardedRace ==
    \A id \in {t.id : t \in StartTasks} :
        (BothDone /\ BothResolved(id)) =>
            /\ \A h \in Handlers :
                  /\ inflight[h].result.success
                  /\ inflight[h].result.task_id = id
            /\ \E t \in tasks : t.id = id /\ t.completed
            /\ CompletedNotices(notifications, id)
                  = CompletedNotices(StartNotifications, id) + 2

\* C26 happens: two requests of user 1 asked for "ab" by title, both found task 1
\* pending, both answered success, and task 1 has two task_completed notifications
C26_Witness ==
    /\ BothDone /\ BothResolved(1)
    /\ \A h \in Handlers :
          /\ inflight[h].params.user_id = 1
          /\ inflight[h].params.task_title = Some(S_ab)
          /\ inflight[h].params.task_id = None
          /\ inflight[h].result.success
    /\ \E t \in tasks : t.id = 1 /\ t.completed
    /\ CompletedNotices(notifications, 1) = CompletedNotices(StartNotifications, 1) + 2

\* What an update_task call supplies
Supplied(field) == IsSome(call.arguments[field])
NoneSupplied == ~Supplied("title") /\ ~Supplied("description") /\ ~Supplied("priority")
UpdatedFrom(old) ==
    [old EXCEPT
       !.title = IF Supplied("title") THEN Val(call.arguments.title) ELSE @,
       !.description = IF Supplied("description") THEN Val(call.arguments.description) ELSE @,
       !.priority = IF Supplied("priority") THEN Val(call.arguments.priority) ELSE @]

C27_WitnessNothing ==
    /\ IsCall /\ call.tool = "update_task" /\ NoneSupplied
    /\ call.result.error = "No updates provided"

\* A request that changed the due date of the task it names has just been answered
DueDateChanged(method) ==
    /\ ops' = ops + 1
    /\ call'.tool = method /\ call'.result.status = 200
    /\ IsSome(call'.arguments.due_date)
    /\ \E t \in tasks : t.id = call'.arguments.task_id /\ t.due_date # call'.arguments.due_date
TrackingReset ==
    \E t \in tasks' :
        /\ t.id = call'.arguments.task_id
        /\ t.due_date = call'.arguments.due_date
        /\ t.last_overdue_notification_sent = None

\* The full update resets the overdue tracking when the due date changes
C28_PutStep == DueDateChanged("PUT") => TrackingReset
C28_PutResetsOverdue == [][C28_PutStep]_vars

\* C28: patch_task resets the overdue tracking when the due date changes: after a
\* PATCH that supplies a due_date different from the stored one the task's
\* last_overdue_notification_sent is null, so the scheduler notifies again once
\* the new due date has passed, as it does after a full update
C28_PatchStep == DueDateChanged("PATCH") => TrackingReset
C28_PatchResetsOverdue == [][C28_PatchStep]_vars

\* After a PATCH of the due date the scheduler has run past the new due date
\* without writing a second overdue notification for the task
C28_Stale ==
    /\ call.tool = "scheduler"
    /\ \E t \in tasks :
          /\ t.id = 1 /\ ~t.completed
          /\ t.due_date = Some(StartClock + 1) /\ clock = StartClock + 1
          /\ t.last_overdue_notification_sent = Some(StartClock)

\* C29: whenever add_task, complete_task, delete_task or update_task answers
\* success = false, whatever the handler had done before the failure, the
\* invocation has left the task store as it was (no task created, modified or
\* deleted) and has added no notification row
C29_FailureMeansNoEffect ==
    (IsCall /\ IsMutation /\ ~call.result.success) =>
        /\ tasks = call.before.tasks
        /\ notifications = call.before.notifications

\* C30: after any sequence of add_task and update_task invocations every task in
\* the store has a title of 1 to 500 characters: add_task rejects an empty title
\* and update_task cannot set the title of an existing task to the empty string
C30_TitleInvariant ==
    \A t \in tasks : StrLen(t.title) >= 1 /\ StrLen(t.title) <= TitleMaxLength

\* add_task rejects an empty title
C30_AddRejectsEmpty ==
    (IsCall /\ call.tool = "add_task" /\ call.arguments.title = Some(S_empty)) =>
        /\ ~call.result.success
        /\ tasks = call.before.tasks

====
